---- MODULE Spec2Model ----
(***************************************************************************)
(* Model of the election scraper: main.py (the command-line run) and       *)
(* scraper.py (index builder, unit extractor, the two collectors, the      *)
(* table merger and the input validator).                                  *)
(*                                                                         *)
(* Text is modelled as a sequence of atoms.  File names and district names *)
(* are sequences of single characters, so that lower(), replace(), strip(),*)
(* endswith() and the substring test are computed as Python computes them. *)
(* URLs are sequences of chunks (directory, last path segment, query       *)
(* parameters) and of whitespace characters.  Cell texts are sequences of  *)
(* characters or of whole words.  None and pandas' missing value NaN are   *)
(* the reserved texts below, which no page text produces.  Czech letters   *)
(* are written without their diacritics ("Cislo obce").                    *)
(***************************************************************************)
EXTENDS Integers, Sequences, FiniteSets, TLC

None == <<"<None>">>
NaN == <<"<NaN>">>

\* ------------------------------------------------------------------ bounds
MaxUnitRows == 2   \* <tr> rows of a district page
MaxRows == 2       \* <tr> rows read from the party tables of one page
MaxCislo == 4      \* td.cislo cells in the first table of a municipality page

\* ------------------------------------------------------------- str methods
Whitespace == {" ", "\t", "\n"}

UpperToLower ==
    [c \in {"A", "B", "C", "S", "V"} |->
        CASE c = "A" -> "a" [] c = "B" -> "b" [] c = "C" -> "c"
          [] c = "S" -> "s" [] c = "V" -> "v"]

\* str.lower()
Lower(s) ==
    [j \in 1..Len(s) |-> IF s[j] \in DOMAIN UpperToLower THEN UpperToLower[s[j]] ELSE s[j]]

\* str.endswith(suffix)
EndsWith(s, suffix) ==
    /\ Len(suffix) <= Len(s)
    /\ SubSeq(s, Len(s) - Len(suffix) + 1, Len(s)) = suffix

\* "sub in s" for str
Contains(s, sub) ==
    \E j \in 0..(Len(s) - Len(sub)) : SubSeq(s, j + 1, j + Len(sub)) = sub

\* str.replace(old, ""): non-overlapping occurrences, left to right
RECURSIVE Remove(_, _)
Remove(s, old) ==
    IF Len(s) < Len(old) THEN s
    ELSE IF SubSeq(s, 1, Len(old)) = old
         THEN Remove(SubSeq(s, Len(old) + 1, Len(s)), old)
         ELSE <<Head(s)>> \o Remove(Tail(s), old)

RECURSIVE LStrip(_)
LStrip(s) == IF s # <<>> /\ Head(s) \in Whitespace THEN LStrip(Tail(s)) ELSE s

RECURSIVE RStrip(_)
RStrip(s) ==
    IF s # <<>> /\ s[Len(s)] \in Whitespace THEN RStrip(SubSeq(s, 1, Len(s) - 1)) ELSE s

\* str.strip()
Strip(s) == RStrip(LStrip(s))

\* ------------------------------------------------------------------- dict
\* A dict is the sequence of its <<key, value>> items in insertion order.
DictKeys(d) == {d[j][1] : j \in 1..Len(d)}

DictGet(d, k, default) ==
    IF k \in DictKeys(d)
    THEN d[CHOOSE j \in 1..Len(d) : d[j][1] = k][2]
    ELSE default

\* d[k] = v: an existing key keeps its position, a new key goes last
DictSet(d, k, v) ==
    IF k \in DictKeys(d)
    THEN [j \in 1..Len(d) |-> IF d[j][1] = k THEN <<k, v>> ELSE d[j]]
    ELSE Append(d, <<k, v>>)

\* ------------------------------------------------------------------- URLs
base_url == "https://www.volby.cz/pls/ps2017nss/"

IsAbsolute(href) == href # <<>> /\ href[1] = base_url

\* urllib.parse.urljoin(base, href): an absolute href replaces the base, a
\* relative one replaces the last path segment (and query) of the base.
UrlJoin(base, href) ==
    IF href = <<>> THEN base
    ELSE IF IsAbsolute(href) \/ base = <<>> THEN href
    ELSE <<base[1]>> \o href

\* parse_qs(urlparse(url).query).get("xobec", [None])[0]
XobecOf(u) ==
    IF \E j \in 1..(Len(u) - 1) : u[j] = "&xobec="
    THEN <<u[(CHOOSE j \in 1..(Len(u) - 1) :
                  /\ u[j] = "&xobec="
                  /\ \A k \in 1..(j - 1) : u[k] # "&xobec=") + 1]>>
    ELSE None

\* ------------------------------------------------------ scraper.py: index
\* get_page_content returns a parsed page, a record with ok = TRUE, or None,
\* the record below, when requests raised.
NoPage == [ok |-> FALSE]

\* A page of the national site: its <tr> rows, each with the texts of its
\* <td> cells and the href of each of its <a> links (<<>>: no href).
init_district_data(soup) ==
    LET Fold[j \in 0..Len(soup.rows)] ==
            IF j = 0 THEN <<>>
            ELSE LET row == soup.rows[j]
                     districts == Fold[j - 1]
                 IN IF Len(row.links) >= 3 /\ Len(row.tds) >= 2
                    THEN LET district_name == Strip(row.tds[2])
                             href == row.links[3]
                         IN IF district_name # <<>> /\ href # <<>>
                            THEN DictSet(districts, Lower(district_name),
                                         UrlJoin(<<base_url>>, href))
                            ELSE districts
                    ELSE districts
    IN Fold[Len(soup.rows)]

\* A district page: its <tr> rows; td is the text of the td.overflow_name
\* cell, a the href of the first <a>; has_td / has_a say whether they exist.
extract_district_units(soup, base) ==
    LET Fold[j \in 0..Len(soup.rows)] ==
            IF j = 0 THEN <<>>
            ELSE LET row == soup.rows[j]
                     district_units == Fold[j - 1]
                 IN IF row.has_td /\ row.has_a
                    THEN LET name == Strip(row.td)
                             full_url == UrlJoin(base, row.a)
                         IN DictSet(district_units, name,
                                    [url |-> full_url, cislo_obce |-> XobecOf(full_url)])
                    ELSE district_units
    IN Fold[Len(soup.rows)]

\* -------------------------------------------------- scraper.py: validator
CSV == <<".", "c", "s", "v">>
VYSLEDKY == <<"v", "y", "s", "l", "e", "d", "k", "y", "_">>

\* The district name embedded in the file name (scraper.py line 268)
district_from_filename(output_filename) ==
    Strip(Remove(Remove(Lower(output_filename), CSV), VYSLEDKY))

\* Index of the first item of districts whose url matches, 0 if none
\* (the loop of scraper.py lines 271-275)
district_from_url(user_url, districts) ==
    IF \E j \in 1..Len(districts) : Strip(user_url) = Strip(districts[j][2])
    THEN CHOOSE j \in 1..Len(districts) :
            /\ Strip(user_url) = Strip(districts[j][2])
            /\ \A k \in 1..(j - 1) : Strip(user_url) # Strip(districts[k][2])
    ELSE 0

\* The comparison of lines 283-286 left out
validate_user_input_drops_name_check(user_url, output_filename, districts) ==
    IF \/ ~EndsWith(Lower(output_filename), CSV)
       \/ \E j \in 1..Len(output_filename) : output_filename[j] \in {"\"", "'"}
    THEN "bad_filename"
    ELSE IF district_from_url(user_url, districts) = 0 THEN "no_district"
    ELSE "ok"

\* "ok" when the function returns; otherwise the check that called sys.exit(1)
validate_user_input(user_url, output_filename, districts) ==
    IF \/ ~EndsWith(Lower(output_filename), CSV)
       \/ \E j \in 1..Len(output_filename) : output_filename[j] \in {"\"", "'"}
    THEN "bad_filename"
    ELSE LET m == district_from_url(user_url, districts)
         IN IF m = 0 THEN "no_district"
            ELSE IF ~Contains(Lower(districts[m][1]), district_from_filename(output_filename))
                 THEN "mismatch"
                 ELSE "ok"

\* -------------------------------------------- scraper.py: turnout collector
\* "headers = None": a header list is never empty, so <<>> stands for None.
NoHeaders == <<>>

\* seq[n:] of Python, n >= 0
SliceFrom(seq, n) == IF Len(seq) <= n THEN <<>> ELSE SubSeq(seq, n + 1, Len(seq))

StripAll(texts) == [j \in 1..Len(texts) |-> Strip(texts[j])]

\* "if headers is None" left out: every page with a table sets the header
turnout_unit_rebuilds_headers(headers, rows, district_unit, data, soup) ==
    IF ~soup.ok \/ ~soup.has_table
    THEN [headers |-> headers, rows |-> rows]
    ELSE [headers |-> <<<<"Cislo obce">>, <<"Obec">>>> \o StripAll(soup.th),
          rows |-> Append(rows, <<district_unit, data.cislo_obce>>
                                  \o StripAll(SliceFrom(soup.cislo, 3)))]

\* One iteration of the loop of get_district_turnout_summary (lines 118-138)
\* on the page fetched for the unit: the new [headers, rows].  A page with a
\* table gives th, the texts of its th[rowspan=2] cells, and cislo, the
\* texts of its td.cislo cells.
turnout_unit(headers, rows, district_unit, data, soup) ==
    IF ~soup.ok \/ ~soup.has_table
    THEN [headers |-> headers, rows |-> rows]
    ELSE [headers |-> IF headers = NoHeaders
                      THEN <<<<"Cislo obce">>, <<"Obec">>>> \o StripAll(soup.th)
                      ELSE headers,
          rows |-> Append(rows, <<district_unit, data.cislo_obce>>
                                  \o StripAll(SliceFrom(soup.cislo, 3)))]

\* ---------------------------------------------- scraper.py: party collector
Digits == <<"0", "1", "2", "3", "4", "5", "6", "7", "8", "9">>

DigitValue(c) == (CHOOSE d \in 1..10 : Digits[d] = c) - 1

\* int(text) succeeds: here for a non-empty run of decimal digits
IsInt(text) ==
    /\ text # <<>>
    /\ \A j \in 1..Len(text) : \E d \in 1..10 : Digits[d] = text[j]

\* int(text)
RECURSIVE ParseInt(_)
ParseInt(text) ==
    IF text = <<>> THEN 0
    ELSE 10 * ParseInt(SubSeq(text, 1, Len(text) - 1)) + DigitValue(text[Len(text)])

Placeholder == {<<>>, <<"-">>}

\* The body of the row loop (lines 178-191) on the <td> texts of one <tr>.
\* st is [results, party_list, seen_parties, raised]; raised is set when
\* int(party_number) raises ValueError.
party_row(st, cell) ==
    IF Len(cell) < 3 THEN st
    ELSE LET party_number == Strip(cell[1])
             party_name == Strip(cell[2])
             votes == Strip(cell[3])
         IN IF party_name \in Placeholder \/ votes \in Placeholder THEN st
            ELSE LET results == DictSet(st.results, party_name, votes)
                 IN IF party_number \in st.seen_parties
                    THEN [st EXCEPT !.results = results]
                    ELSE IF ~IsInt(party_number)
                    THEN [st EXCEPT !.results = results, !.raised = TRUE]
                    ELSE [st EXCEPT !.results = results,
                                    !.party_list =
                                        Append(@, <<ParseInt(party_number), party_name>>),
                                    !.seen_parties = @ \cup {party_number}]

\* sorted(party_list, key=lambda x: x[0]): stable insertion sort
RECURSIVE InsertByNumber(_, _)
InsertByNumber(sorted, p) ==
    IF sorted = <<>> THEN <<p>>
    ELSE IF sorted[Len(sorted)][1] <= p[1] THEN Append(sorted, p)
    ELSE Append(InsertByNumber(SubSeq(sorted, 1, Len(sorted) - 1), p), sorted[Len(sorted)])

RECURSIVE SortByNumber(_)
SortByNumber(party_list) ==
    IF party_list = <<>> THEN <<>>
    ELSE InsertByNumber(SortByNumber(SubSeq(party_list, 1, Len(party_list) - 1)),
                        party_list[Len(party_list)])

\* Lines 196-208: [header, rows] from the vocabulary and the units' results
party_table(party_list, district_units_data) ==
    LET party_list_sorted == SortByNumber(party_list)
        party_names_ordered == [j \in 1..Len(party_list_sorted) |-> party_list_sorted[j][2]]
    IN [header |-> <<<<"Obec">>>> \o party_names_ordered,
        rows |-> [u \in 1..Len(district_units_data) |->
                    <<district_units_data[u][1]>> \o
                    [j \in 1..Len(party_names_ordered) |->
                        DictGet(district_units_data[u][2], party_names_ordered[j], <<"0">>)]]]

\* ------------------------------------------------- scraper.py: table merger
Range(seq) == {seq[j] : j \in 1..Len(seq)}

Count(seq, x) == Cardinality({j \in 1..Len(seq) : seq[j] = x})

IndexOf(seq, x) ==
    CHOOSE j \in 1..Len(seq) : seq[j] = x /\ \A k \in 1..(j - 1) : seq[k] # x

DropIndex(seq, k) == SubSeq(seq, 1, k - 1) \o SubSeq(seq, k + 1, Len(seq))

RECURSIVE Flatten(_)
Flatten(seqs) == IF seqs = <<>> THEN <<>> ELSE Head(seqs) \o Flatten(Tail(seqs))

MaxLen(rows) ==
    IF rows = <<>> THEN 0
    ELSE CHOOSE n \in {Len(rows[j]) : j \in 1..Len(rows)} :
            \A j \in 1..Len(rows) : Len(rows[j]) <= n

\* pd.DataFrame(rows, columns=columns): short rows are padded with None and
\* the widest row must have as many fields as there are column labels
\* (ValueError otherwise).  Without labels (columns=None) the columns are
\* numbered, so the frame has no text label: columns is <<>>.
DataFrame(rows, columns) ==
    IF columns = NoHeaders THEN [ok |-> TRUE, columns |-> <<>>, rows |-> rows]
    ELSE IF rows # <<>> /\ MaxLen(rows) # Len(columns) THEN [ok |-> FALSE]
    ELSE [ok |-> TRUE, columns |-> columns,
          rows |-> [r \in 1..Len(rows) |->
                      [j \in 1..Len(columns) |->
                          IF j <= Len(rows[r]) THEN rows[r][j] ELSE None]]]

\* df1.rename(columns={...}) of lines 230-237
RenameLabel(label) ==
    CASE label = <<"Voliciv seznamu">> -> <<"Volici v seznamu">>
      [] label = <<"Vydaneobalky">> -> <<"Vydane obalky">>
      [] label = <<"Volebniucast v %">> -> <<"Volebni ucast v %">>
      [] label = <<"Odevzdaneobalky">> -> <<"Odevzdane obalky">>
      [] label = <<"Platnehlasy">> -> <<"Platne hlasy">>
      [] label = <<"% platnychhlasu">> -> <<"% platnych hlasu">>
      [] OTHER -> label

Obec == <<"Obec">>

\* pd.merge(df1, df2, on="Obec", how="outer").  The columns are those of df1
\* followed by those of df2 without its key; a label the two frames share
\* gets the suffixes _x and _y.  A row of df1 is paired with every row of
\* df2 that has its key; a row without partner keeps NaN in the other
\* frame's columns.  pandas orders the rows by key; no property reads the
\* order, and the rows are listed here df1 first, then the rows of df2 alone.
MergedHeader(cols1, cols2) ==
    LET shared == (Range(cols1) \cap Range(cols2)) \ {Obec}
    IN [j \in 1..Len(cols1) |->
           IF cols1[j] \in shared THEN Append(cols1[j], "_x") ELSE cols1[j]]
       \o DropIndex([j \in 1..Len(cols2) |->
           IF cols2[j] \in shared THEN Append(cols2[j], "_y") ELSE cols2[j]],
           IndexOf(cols2, Obec))

\* The rows of df1, each with its partners of df2 or with NaN
RowsOfLeft(cols1, rows1, cols2, rows2) ==
    LET k1 == IndexOf(cols1, Obec)
        k2 == IndexOf(cols2, Obec)
        nan2 == [j \in 1..(Len(cols2) - 1) |-> NaN]
        Partners(r) == SelectSeq([q \in 1..Len(rows2) |-> q],
                                 LAMBDA q : rows2[q][k2] = rows1[r][k1])
        FromLeft(r) ==
            IF Partners(r) = <<>> THEN <<rows1[r] \o nan2>>
            ELSE [p \in 1..Len(Partners(r)) |->
                    rows1[r] \o DropIndex(rows2[Partners(r)[p]], k2)]
    IN Flatten([r \in 1..Len(rows1) |-> FromLeft(r)])

\* The rows of df2 whose key no row of df1 has
RowsOfRightAlone(cols1, rows1, cols2, rows2) ==
    LET k1 == IndexOf(cols1, Obec)
        k2 == IndexOf(cols2, Obec)
        nan1 == [j \in 1..Len(cols1) |-> NaN]
        alone == SelectSeq([q \in 1..Len(rows2) |-> q],
                           LAMBDA q : \A r \in 1..Len(rows1) : rows1[r][k1] # rows2[q][k2])
    IN [a \in 1..Len(alone) |->
           [nan1 EXCEPT ![k1] = rows2[alone[a]][k2]] \o DropIndex(rows2[alone[a]], k2)]

\* how="left" in place of how="outer"
OuterMerge_as_left_join(cols1, rows1, cols2, rows2) ==
    [ok |-> TRUE, header |-> MergedHeader(cols1, cols2),
     rows |-> RowsOfLeft(cols1, rows1, cols2, rows2)]

OuterMerge(cols1, rows1, cols2, rows2) ==
    [ok |-> TRUE, header |-> MergedHeader(cols1, cols2),
     rows |-> RowsOfLeft(cols1, rows1, cols2, rows2)
              \o RowsOfRightAlone(cols1, rows1, cols2, rows2)]

\* Lines 226-240 and 247: the merged frame, or ok = FALSE when pandas raises
\* (ValueError from DataFrame; KeyError or MergeError when a frame has no
\* single "Obec" column).
merge_two_tables(headers1, rows1, headers2, rows2) ==
    LET df1 == DataFrame(rows1, headers1)
        df2 == DataFrame(rows2, headers2)
    IN IF ~df1.ok \/ ~df2.ok THEN [ok |-> FALSE]
       ELSE LET cols1 == [j \in 1..Len(df1.columns) |-> RenameLabel(df1.columns[j])]
            IN IF Count(cols1, Obec) # 1 \/ Count(df2.columns, Obec) # 1
               THEN [ok |-> FALSE]
               ELSE OuterMerge(cols1, df1.rows, df2.columns, df2.rows)

\* na_rep="0" in place of the default na_rep=""
to_csv_writes_zero(df) ==
    [header |-> df.header,
     rows |-> [r \in 1..Len(df.rows) |->
                 [j \in 1..Len(df.rows[r]) |->
                     IF df.rows[r][j] \in {NaN, None} THEN <<"0">> ELSE df.rows[r][j]]]]

\* df_merged.to_csv(...) of line 243: a missing value is written as an empty field
to_csv(df) ==
    [header |-> df.header,
     rows |-> [r \in 1..Len(df.rows) |->
                 [j \in 1..Len(df.rows[r]) |->
                     IF df.rows[r][j] \in {NaN, None} THEN <<>> ELSE df.rows[r][j]]]]

\* ------------------------------------------------------------------ inputs
\* URLs of the site: the directory chunk, then the last path segment
U1 == <<base_url, "ps32?xjazyk=CZ&xkraj=2&xnumnuts=2101">>
U2 == <<base_url, "ps32?xjazyk=CZ&xkraj=2&xnumnuts=2102">>

\* What the user may pass as <URL>
Urls == {U1, U1 \o <<" ">>, <<"https://example.org/">>}

\* What the user may pass as <output_file.csv>
Filenames ==
    { VYSLEDKY \o <<"a", "b">> \o CSV,
      VYSLEDKY \o <<"a">> \o CSV,
      <<"C", "b", ".", "C", "S", "V">>,
      <<"a", "b", ".", "t", "x", "t">>,
      <<"'">> \o <<"a", "b">> \o CSV,
      VYSLEDKY \o <<"a", "b">> \o CSV \o <<" ">>,
      <<"z", "z">> \o CSV }

\* sys.argv: the program name and the arguments
Argvs ==
    {<<<<"main.py">>>>, <<<<"main.py">>, U1>>}
    \cup {<<<<"main.py">>, u, f>> : u \in Urls, f \in Filenames}
    \cup {<<<<"main.py">>, U1, VYSLEDKY \o <<"a", "b">> \o CSV, <<"-v">>>>}

\* A row of the national page that lists a district: code cell, name cell,
\* and three links, the third to the district page
DistrictRow(name, href) ==
    [tds |-> <<<<"CZ">>, name>>, links |-> <<<<"ps311">>, <<"ps312">>, href>>]

\* What get_page_content(home_url) may return
HomeResponses ==
    { NoPage,
      [ok |-> TRUE,
       rows |-> << [tds |-> <<>>, links |-> <<>>],
                   DistrictRow(<<" ", "A", "b", " ">>, <<U1[2]>>),
                   DistrictRow(<<"C", "b">>, U2) >>],
      [ok |-> TRUE,
       rows |-> << DistrictRow(<<"C", "b">>, <<>>),
                   DistrictRow(<<"C", "b">>, U1),
                   DistrictRow(<<"A", "b">>, <<U1[2]>>) >>] }

\* A row of a district page
UnitRows ==
    { [has_td |-> TRUE, td |-> <<"As">>, has_a |-> TRUE,
       a |-> <<"ps311?xjazyk=CZ", "&xobec=", "554499">>],
      [has_td |-> TRUE, td |-> <<" ", "Cheb", "\n">>, has_a |-> TRUE,
       a |-> <<"ps311?xjazyk=CZ">>],
      [has_td |-> TRUE, td |-> <<"As">>, has_a |-> TRUE,
       a |-> <<"ps311?xjazyk=CZ", "&xobec=", "Cheb">>],
      [has_td |-> FALSE, td |-> <<>>, has_a |-> TRUE, a |-> <<"ps3?xjazyk=CZ">>] }

RECURSIVE SeqsUpTo(_, _)
SeqsUpTo(S, n) ==
    IF n = 0 THEN {<<>>}
    ELSE LET shorter == SeqsUpTo(S, n - 1)
         IN shorter \cup {Append(q, x) : q \in shorter, x \in S}

\* What get_page_content(url) may return for the district page
DistrictResponses ==
    {NoPage} \cup {[ok |-> TRUE, rows |-> rows] : rows \in SeqsUpTo(UnitRows, MaxUnitRows)}

\* The th[rowspan=2] texts a municipality page may have in its first table
ThTexts == {<<>>, <<<<"Vydaneobalky", "\n">>>>}

CisloTexts(n) == [j \in 1..n |-> <<" ", Digits[j + 1]>>]

\* What get_page_content(url) may return to the turnout collector
TurnoutResponses ==
    {NoPage, [ok |-> TRUE, has_table |-> FALSE]}
    \cup {[ok |-> TRUE, has_table |-> TRUE, th |-> th, cislo |-> CisloTexts(n)] :
             th \in ThTexts, n \in 0..MaxCislo}

\* The <td> texts of a row of a party table
PartyRows ==
    {<<<<"-">>, <<"-">>>>}
    \cup {<<number, name, votes>> :
             number \in {<<"1">>, <<"2">>, <<"0", "1">>, <<"x">>},
             name \in {<<"ANO">>, <<"ODS">>, <<"-">>},
             votes \in {<<"5">>, <<"-">>}}

\* ------------------------------------------------------------------- state
VARIABLES
    pc,                   \* position of the run in main.py / the collectors
    argv,                 \* sys.argv
    url, output_file,     \* main.py lines 17-18
    districts,            \* the district index (a dict)
    district_units_dict,  \* the municipalities of the district (a dict)
    i,                    \* 1-based position of a collector's loop
    headers1, rows1,      \* the turnout table
    pages1,               \* turnout collector: the page behind each row of rows1
    st,                   \* party collector: results, party_list, seen_parties
    nrows,                \* rows read so far from the current party page
    district_units_data,  \* party collector: results per municipality (a dict)
    headers2, rows2,      \* the party table
    df_merged,            \* the merged frame
    csv_file,             \* the file written by to_csv
    exit_code,            \* -1 while the run goes on
    message,              \* the error the run ended with
    fetched               \* pages requested so far: district page, unit pages

vars == <<pc, argv, url, output_file, districts, district_units_dict, i, headers1, rows1,
          pages1, st, nrows, district_units_data, headers2, rows2, df_merged, csv_file,
          exit_code, message, fetched>>

NoFrame == [ok |-> FALSE]
NoFile == [saved |-> FALSE]
NewPartyState == [results |-> <<>>, party_list |-> <<>>, seen_parties |-> {}, raised |-> FALSE]

Init ==
    /\ pc = "start"
    /\ argv \in Argvs
    /\ url = <<>>
    /\ output_file = <<>>
    /\ districts = <<>>
    /\ district_units_dict = <<>>
    /\ i = 1
    /\ headers1 = NoHeaders
    /\ rows1 = <<>>
    /\ pages1 = <<>>
    /\ st = NewPartyState
    /\ nrows = 0
    /\ district_units_data = <<>>
    /\ headers2 = NoHeaders
    /\ rows2 = <<>>
    /\ df_merged = NoFrame
    /\ csv_file = NoFile
    /\ exit_code = -1
    /\ message = "none"
    /\ fetched = [district |-> FALSE, units |-> 0]

\* sys.exit(1) after an error message, or an uncaught exception (why is then
\* the exception's name): either way the interpreter ends with status 1
Exit(why) ==
    /\ pc' = "exit"
    /\ exit_code' = 1
    /\ message' = why

\* -------------------------------------------------------- main.py, steps
\* Lines 11-18
CheckArgs ==
    /\ pc = "start"
    /\ IF Len(argv) # 3
       THEN /\ Exit("usage")
            /\ UNCHANGED <<url, output_file>>
       ELSE /\ url' = argv[2]
            /\ output_file' = argv[3]
            /\ pc' = "home"
            /\ UNCHANGED <<exit_code, message>>
    /\ UNCHANGED <<argv, districts, district_units_dict, i, headers1, rows1, pages1, st, nrows,
                   district_units_data, headers2, rows2, df_merged, csv_file, fetched>>

\* Lines 21-23: init_district_data(None) raises AttributeError
LoadDistricts ==
    /\ pc = "home"
    /\ \E soup_home \in HomeResponses :
          IF ~soup_home.ok
          THEN /\ Exit("AttributeError")
               /\ UNCHANGED districts
          ELSE /\ districts' = init_district_data(soup_home)
               /\ pc' = "validate"
               /\ UNCHANGED <<exit_code, message>>
    /\ UNCHANGED <<argv, url, output_file, district_units_dict, i, headers1, rows1, pages1,
                   st, nrows, district_units_data, headers2, rows2, df_merged, csv_file, fetched>>

\* Line 25
ValidateInput ==
    /\ pc = "validate"
    /\ LET verdict == validate_user_input(url, output_file, districts)
       IN IF verdict = "ok"
          THEN /\ pc' = "in_list"
               /\ UNCHANGED <<exit_code, message>>
          ELSE Exit(verdict)
    /\ UNCHANGED <<argv, url, output_file, districts, district_units_dict, i, headers1, rows1,
                   pages1, st, nrows, district_units_data, headers2, rows2, df_merged, csv_file,
                   fetched>>

\* The membership test left out
CheckUrlInList_always_passes ==
    /\ pc = "in_list"
    /\ pc' = "district"
    /\ UNCHANGED <<argv, url, output_file, districts, district_units_dict, i, headers1, rows1,
                   pages1, st, nrows, district_units_data, headers2, rows2, df_merged,
                   csv_file, exit_code, message, fetched>>

\* Lines 31-37
CheckUrlInList ==
    /\ pc = "in_list"
    /\ IF url \notin {districts[j][2] : j \in 1..Len(districts)}
       THEN Exit("not_in_list")
       ELSE /\ pc' = "district"
            /\ UNCHANGED <<exit_code, message>>
    /\ UNCHANGED <<argv, url, output_file, districts, district_units_dict, i, headers1, rows1,
                   pages1, st, nrows, district_units_data, headers2, rows2, df_merged, csv_file,
                   fetched>>

\* Lines 43-44: extract_district_units(None, url) raises AttributeError
LoadDistrictUnits ==
    /\ pc = "district"
    /\ fetched' = [fetched EXCEPT !.district = TRUE]
    /\ \E soup_district \in DistrictResponses :
          IF ~soup_district.ok
          THEN /\ Exit("AttributeError")
               /\ UNCHANGED district_units_dict
          ELSE /\ district_units_dict' = extract_district_units(soup_district, url)
               /\ pc' = "turnout"
               /\ UNCHANGED <<exit_code, message>>
    /\ UNCHANGED <<argv, url, output_file, districts, i, headers1, rows1, pages1, st, nrows,
                   district_units_data, headers2, rows2, df_merged, csv_file>>

\* ------------------------------------- get_district_turnout_summary, steps
\* Lines 118-138: one iteration of the loop
TurnoutUnit ==
    /\ pc = "turnout"
    /\ i <= Len(district_units_dict)
    /\ fetched' = [fetched EXCEPT !.units = @ + 1]
    /\ \E soup \in TurnoutResponses :
          LET new == turnout_unit(headers1, rows1, district_units_dict[i][1],
                                  district_units_dict[i][2], soup)
          IN /\ headers1' = new.headers
             /\ rows1' = new.rows
             /\ pages1' = IF Len(new.rows) > Len(rows1) THEN Append(pages1, soup) ELSE pages1
    /\ i' = i + 1
    /\ UNCHANGED <<pc, argv, url, output_file, districts, district_units_dict, st, nrows,
                   district_units_data, headers2, rows2, df_merged, csv_file, exit_code,
                   message>>

\* Line 140, then main.py line 49 and scraper.py lines 155-157
TurnoutReturn ==
    /\ pc = "turnout"
    /\ i > Len(district_units_dict)
    /\ pc' = "party"
    /\ i' = 1
    /\ st' = NewPartyState
    /\ district_units_data' = <<>>
    /\ pages1' = <<>>
    /\ UNCHANGED <<argv, url, output_file, districts, district_units_dict, headers1, rows1,
                   nrows, headers2, rows2, df_merged, csv_file, exit_code, message, fetched>>

\* --------------------------------------- get_district_party_results, steps
\* Lines 159-174: the page is fetched; a failed fetch or a page with no table
\* after the first one skips the unit
PartyFetch ==
    /\ pc = "party"
    /\ i <= Len(district_units_dict)
    /\ fetched' = [fetched EXCEPT !.units = @ + 1]
    /\ \E outcome \in {"none", "no_tables", "tables"} :
          IF outcome = "tables"
          THEN /\ st' = [st EXCEPT !.results = <<>>]
               /\ nrows' = 0
               /\ pc' = "party_rows"
               /\ UNCHANGED i
          ELSE /\ i' = i + 1
               /\ UNCHANGED <<st, nrows, pc>>
    /\ UNCHANGED <<argv, url, output_file, districts, district_units_dict, headers1, rows1, pages1,
                   district_units_data, headers2, rows2, df_merged, csv_file, exit_code,
                   message>>

\* Lines 175-191: the next <tr> of the page's party tables
PartyRow ==
    /\ pc = "party_rows"
    /\ nrows < MaxRows
    /\ \E cell \in PartyRows :
          LET new == party_row(st, cell)
          IN IF new.raised
             THEN /\ Exit("ValueError")
                  /\ UNCHANGED <<st, nrows>>
             ELSE /\ st' = new
                  /\ nrows' = nrows + 1
                  /\ UNCHANGED <<pc, exit_code, message>>
    /\ UNCHANGED <<argv, url, output_file, districts, district_units_dict, i, headers1, rows1, pages1,
                   district_units_data, headers2, rows2, df_merged, csv_file, fetched>>

\* Line 193: the page has no more rows
PartyUnitDone ==
    /\ pc = "party_rows"
    /\ district_units_data' = DictSet(district_units_data, district_units_dict[i][1], st.results)
    /\ i' = i + 1
    /\ st' = [st EXCEPT !.results = <<>>]
    /\ nrows' = 0
    /\ pc' = "party"
    /\ UNCHANGED <<argv, url, output_file, districts, district_units_dict, headers1, rows1, pages1,
                   headers2, rows2, df_merged, csv_file, exit_code, message, fetched>>

\* Lines 196-208
PartyReturn ==
    /\ pc = "party"
    /\ i > Len(district_units_dict)
    /\ LET table == party_table(st.party_list, district_units_data)
       IN /\ headers2' = table.header
          /\ rows2' = table.rows
    /\ pc' = "merge"
    /\ UNCHANGED <<argv, url, output_file, districts, district_units_dict, i, headers1, rows1,
                   pages1, st, nrows, district_units_data, df_merged, csv_file, exit_code, message,
                   fetched>>

\* ------------------------------------------------------- merge_two_tables
\* main.py line 52, scraper.py lines 226-247; an exception of pandas ends the run
MergeAndSave ==
    /\ pc = "merge"
    /\ LET df == merge_two_tables(headers1, rows1, headers2, rows2)
       IN IF df.ok
          THEN /\ df_merged' = df
               /\ csv_file' = [saved |-> TRUE, name |-> output_file] @@ to_csv(df)
               /\ pc' = "done"
               /\ exit_code' = 0
               /\ UNCHANGED message
          ELSE /\ Exit("pandas error")
               /\ UNCHANGED <<df_merged, csv_file>>
    /\ UNCHANGED <<argv, url, output_file, districts, district_units_dict, i, headers1, rows1,
                   pages1, st, nrows, district_units_data, headers2, rows2, fetched>>

Next ==
    \/ CheckArgs
    \/ LoadDistricts
    \/ ValidateInput
    \/ CheckUrlInList
    \/ LoadDistrictUnits
    \/ TurnoutUnit
    \/ TurnoutReturn
    \/ PartyFetch
    \/ PartyRow
    \/ PartyUnitDone
    \/ PartyReturn
    \/ MergeAndSave

Spec == Init /\ [][Next]_vars

\* ------------------------------------------ merge_two_tables called alone
MaxTableRows == 2   \* rows of each table passed to merge_two_tables

MergeKeys == {<<"As">>, <<"Cheb">>, <<"Plana">>}

Injective(keys) == \A j, k \in 1..Len(keys) : j # k => keys[j] # keys[k]

\* Tables whose "Obec" values are unique: a turnout-like table with the key
\* in its second column, and one with the key first
LeftTables ==
    {[headers |-> <<<<"Cislo obce">>, <<"Obec">>, <<"Vydaneobalky">>>>,
      rows |-> [r \in 1..Len(keys) |->
                  <<<<"code of", keys[r][1]>>, keys[r], <<"issued in", keys[r][1]>>>>]] :
        keys \in {q \in SeqsUpTo(MergeKeys, MaxTableRows) : Injective(q)}}
    \cup
    {[headers |-> <<<<"Obec">>, <<"ANO">>>>,
      rows |-> [r \in 1..Len(keys) |-> <<keys[r], <<"left ANO of", keys[r][1]>>>>]] :
        keys \in {q \in SeqsUpTo(MergeKeys, MaxTableRows) : Injective(q)}}

RightTables ==
    {[headers |-> <<<<"Obec">>, <<"ANO">>, <<"ODS">>>>,
      rows |-> [r \in 1..Len(keys) |->
                  <<keys[r], <<"ANO in", keys[r][1]>>, <<"ODS in", keys[r][1]>>>>]] :
        keys \in {q \in SeqsUpTo(MergeKeys, MaxTableRows) : Injective(q)}}

\* merge_two_tables(headers1, rows1, headers2, rows2) with the default output_name
InitMerge ==
    /\ pc = "merge"
    /\ argv = <<>>
    /\ url = <<>>
    /\ output_file = <<"vysledny_okres.csv">>
    /\ districts = <<>>
    /\ district_units_dict = <<>>
    /\ i = 1
    /\ \E t \in LeftTables : headers1 = t.headers /\ rows1 = t.rows
    /\ pages1 = <<>>
    /\ st = NewPartyState
    /\ nrows = 0
    /\ district_units_data = <<>>
    /\ \E t \in RightTables : headers2 = t.headers /\ rows2 = t.rows
    /\ df_merged = NoFrame
    /\ csv_file = NoFile
    /\ exit_code = -1
    /\ message = "none"
    /\ fetched = [district |-> FALSE, units |-> 0]

NextMerge == MergeAndSave

SpecMerge == InitMerge /\ [][NextMerge]_vars

\* ============================================================== properties
CsvText(v) == IF v \in {NaN, None} THEN <<>> ELSE v

CsvRow(row) == [j \in 1..Len(row) |-> CsvText(row[j])]

\* The names in the first field of the rows of a collector's table
NamesIn(rows) == {rows[r][1] : r \in 1..Len(rows)}

\* Both collectors got a row from every municipality of the district
AllCollected ==
    /\ Len(district_units_dict) >= 1
    /\ Len(rows1) = Len(district_units_dict)
    /\ Len(district_units_data) = Len(district_units_dict)

\* C1: end to end, when both collectors fetched and parsed every municipality
\* page, the output file has exactly one row per municipality, and that row
\* holds the municipality's turnout fields followed by its party vote counts.
C1_OneRowPerMunicipality ==
    (pc = "done" /\ AllCollected) =>
        /\ Len(csv_file.rows) = Len(district_units_dict)
        /\ \A u \in 1..Len(district_units_dict) :
              \E r \in 1..Len(csv_file.rows) :
                  csv_file.rows[r] = CsvRow(rows1[u] \o Tail(rows2[u]))

\* The "Obec" values of a table passed to merge_two_tables
KeysOf(headers, rows) == {rows[r][IndexOf(headers, Obec)] : r \in 1..Len(rows)}

RowOfKey(headers, rows, key) ==
    rows[CHOOSE r \in 1..Len(rows) : rows[r][IndexOf(headers, Obec)] = key]

\* C2: merge_two_tables is a full outer join on "Obec": with unique "Obec"
\* values in each table, every name of either table is in exactly one output
\* row; a name of one table only has the other table's columns empty (NaN),
\* a name of both has the fields of both.
C2_FullOuterJoin ==
    pc = "done" =>
        LET k == IndexOf(df_merged.header, Obec)
            k2 == IndexOf(headers2, Obec)
            keys1 == KeysOf(headers1, rows1)
            keys2 == KeysOf(headers2, rows2)
            Left(row) == SubSeq(row, 1, Len(headers1))
            Right(row) == SubSeq(row, Len(headers1) + 1, Len(row))
        IN /\ Len(df_merged.rows) = Cardinality(keys1 \cup keys2)
           /\ \A key \in keys1 \cup keys2 :
                 /\ Cardinality({r \in 1..Len(df_merged.rows) : df_merged.rows[r][k] = key}) = 1
                 /\ \A r \in 1..Len(df_merged.rows) :
                       df_merged.rows[r][k] = key =>
                          /\ IF key \in keys1
                             THEN Left(df_merged.rows[r]) = RowOfKey(headers1, rows1, key)
                             ELSE \A j \in 1..Len(headers1) :
                                     j # k => df_merged.rows[r][j] = NaN
                          /\ IF key \in keys2
                             THEN Right(df_merged.rows[r])
                                  = DropIndex(RowOfKey(headers2, rows2, key), k2)
                             ELSE \A j \in 1..(Len(headers2) - 1) :
                                     Right(df_merged.rows[r])[j] = NaN

\* C2 witness: the merge ran on a name of the left table only, a name of the
\* right table only and a name of both
C2_Witness ==
    /\ pc = "done"
    /\ KeysOf(headers1, rows1) \ KeysOf(headers2, rows2) # {}
    /\ KeysOf(headers2, rows2) \ KeysOf(headers1, rows1) # {}
    /\ KeysOf(headers1, rows1) \cap KeysOf(headers2, rows2) # {}

\* validate_user_input has returned normally / has ended the run
ValidationPassed == pc = "in_list"
ValidationFailed == pc = "exit" /\ message \in {"bad_filename", "no_district", "mismatch"}

NoQuote(filename) == \A j \in 1..Len(filename) : filename[j] \notin {"\"", "'"}

\* The index entries whose url is the user's url
UrlEquals == {j \in 1..Len(districts) : districts[j][2] = url}

\* The claim's reading: the url equals an index entry, and the embedded name
\* is a substring of the name of the (first) district with that url
MatchesAsClaimed ==
    /\ EndsWith(Lower(output_file), CSV)
    /\ NoQuote(output_file)
    /\ UrlEquals # {}
    /\ \A j \in UrlEquals :
          (\A k \in UrlEquals : j <= k)
             => Contains(Lower(districts[j][1]), district_from_filename(output_file))

\* C3 as claimed: validation returns normally exactly when the file name is
\* well formed, the url equals an index entry and the embedded name is a
\* substring of that district's name; otherwise the run ends with status 1.
C3_ValidationAsClaimed ==
    /\ ValidationPassed => MatchesAsClaimed
    /\ ValidationFailed => (~MatchesAsClaimed /\ exit_code = 1)

\* The index entries whose url is the user's url, both stripped of whitespace
UrlMatches == {j \in 1..Len(districts) : Strip(districts[j][2]) = Strip(url)}

MatchesFirstStripped ==
    /\ EndsWith(Lower(output_file), CSV)
    /\ NoQuote(output_file)
    /\ UrlMatches # {}
    /\ \A j \in UrlMatches :
          (\A k \in UrlMatches : j <= k)
             => Contains(Lower(districts[j][1]), district_from_filename(output_file))

\* C3 amended: validation returns normally exactly when the file name is
\* well formed, the url equals an index entry once both are stripped of
\* surrounding whitespace, and the embedded name is a substring of that
\* district's name; otherwise the run ends with status 1.
C3_ValidationStripsUrl ==
    /\ ValidationPassed => MatchesFirstStripped
    /\ ValidationFailed => (~MatchesFirstStripped /\ exit_code = 1)

\* C3 witness: validation has accepted a url with trailing whitespace
C3_Witness == ValidationPassed /\ url # Strip(url)

\* The party table has been returned
PartyTableReturned == headers2 # NoHeaders

\* C4: the party header is "Obec" followed by the party names in strictly
\* ascending order of their numbers; no two columns have the same number and
\* no party name occurs twice.
C4_HeaderStrictlyAscending ==
    PartyTableReturned =>
        LET sorted == SortByNumber(st.party_list)
        IN /\ headers2 = <<Obec>> \o [j \in 1..Len(sorted) |-> sorted[j][2]]
           /\ \A j, k \in 1..Len(sorted) : j < k => sorted[j][1] < sorted[k][1]
           /\ \A j, k \in 1..Len(headers2) : j < k => headers2[j] # headers2[k]

\* The columns of the output file that come from the party table
PartyColumns == (Len(headers1) + 1)..(Len(headers1) + Len(headers2) - 1)

\* The rows of the output file built from the turnout row of a municipality
\* (the turnout collector puts the name in the first field)
OutputRowsOf(name) == {r \in 1..Len(csv_file.rows) : csv_file.rows[r][1] = name}

\* In the turnout table, not in the party table
TurnoutOnly == NamesIn(rows1) \ NamesIn(rows2)

\* C5 as claimed: a municipality of the turnout table that is absent from the
\* party table has "0" in every party column of its output row.
C5_AbsentHoldsZero ==
    pc = "done" =>
        \A name \in TurnoutOnly :
            \A r \in OutputRowsOf(name) :
                \A j \in PartyColumns : csv_file.rows[r][j] = <<"0">>

\* C5 amended: such a municipality has one output row, and every party column
\* of it is empty, unless the "Obec" field of its turnout row (where the
\* turnout collector puts the municipality code) is the name of a
\* municipality of the party table.
C5_AbsentHoldsEmpty ==
    pc = "done" =>
        \A name \in TurnoutOnly :
            /\ OutputRowsOf(name) # {}
            /\ \A r \in OutputRowsOf(name) :
                  csv_file.rows[r][2] \notin NamesIn(rows2)
                     => \A j \in PartyColumns : csv_file.rows[r][j] = <<>>

\* C5 witness: the output has a party column and the row of a municipality
\* that the party collector skipped
C5_Witness ==
    /\ pc = "done"
    /\ PartyColumns # {}
    /\ rows2 # <<>>
    /\ \E name \in TurnoutOnly :
          \E r \in OutputRowsOf(name) : csv_file.rows[r][2] \notin NamesIn(rows2)

SameShape(page, other) ==
    Len(page.th) = Len(other.th) /\ Len(page.cislo) = Len(other.cislo)

\* C6 as claimed: the header is as long as every row that comes from a page
\* with the table shape of the reference page (the page of the first row),
\* and it is the header of that page.
C6_HeaderLengthIsRowLength ==
    (pc = "turnout" /\ rows1 # <<>>) =>
        /\ headers1 = <<<<"Cislo obce">>, Obec>> \o StripAll(pages1[1].th)
        /\ \A r \in 1..Len(rows1) :
              SameShape(pages1[r], pages1[1]) => Len(rows1[r]) = Len(headers1)

\* C6 amended: the header is that of the reference page; the rows from pages
\* of its shape are as long as each other, and as long as the header when
\* the reference page has three more td.cislo cells than th[rowspan=2] cells.
C6_HeaderFixedRowsAlike ==
    (pc = "turnout" /\ rows1 # <<>>) =>
        /\ headers1 = <<<<"Cislo obce">>, Obec>> \o StripAll(pages1[1].th)
        /\ \A r \in 1..Len(rows1) :
              SameShape(pages1[r], pages1[1]) =>
                 /\ Len(rows1[r]) = Len(rows1[1])
                 /\ Len(pages1[1].cislo) = Len(pages1[1].th) + 3
                       => Len(rows1[r]) = Len(headers1)

\* C6 witness: a second row from a page of the reference page's shape, the
\* reference page having a th[rowspan=2] cell and three more td.cislo cells
C6_Witness ==
    /\ pc = "turnout"
    /\ Len(rows1) = 2
    /\ Len(pages1[1].cislo) = Len(pages1[1].th) + 3
    /\ pages1[1].th # <<>>
    /\ SameShape(pages1[2], pages1[1])

\* C7: no exception leaves a collector: a row with an unexpected cell, such as
\* a party number that is no number, is skipped.
C7_NoExceptionFromCollectors == message # "ValueError"

UserErrors == {"usage", "bad_filename", "no_district", "mismatch", "not_in_list"}

\* C8: a run that ends in a user input error ends with status 1 and has
\* fetched neither the district page nor a municipality page; those pages
\* are fetched only when validate_user_input and the membership test passed.
C8_NoFetchBeforeValidation ==
    /\ (pc = "exit" /\ message \in UserErrors) =>
          (exit_code = 1 /\ ~fetched.district /\ fetched.units = 0)
    /\ (fetched.district \/ fetched.units > 0) =>
          /\ Len(argv) = 3
          /\ validate_user_input(argv[2], argv[3], districts) = "ok"
          /\ argv[2] \in {districts[j][2] : j \in 1..Len(districts)}

\* C8 witness: a run ended by the membership test, and nothing fetched
C8_Witness ==
    pc = "exit" /\ message = "not_in_list" /\ ~fetched.district /\ fetched.units = 0

\* C9: in the party table, the row of a municipality holds, for every party
\* its page reported, the reported count in that party's column, and "0" only
\* in the columns of parties it did not report.
C9_ObservedVotesInTable ==
    PartyTableReturned =>
        \A u \in 1..Len(district_units_data) :
            LET results == district_units_data[u][2]
            IN /\ \A name \in DictKeys(results) :
                     \E j \in 2..Len(headers2) :
                        headers2[j] = name /\ rows2[u][j] = DictGet(results, name, <<"0">>)
               /\ \A j \in 2..Len(headers2) :
                     rows2[u][j] = <<"0">> => headers2[j] \notin DictKeys(results)

\* C10: when validate_user_input has returned normally, the membership test
\* of main.py passes too.
C10_UrlChecksAgree == ~(pc = "exit" /\ message = "not_in_list")

====
